---- MODULE Spec2Model ----
(***************************************************************************)
(* Model of the two data-preparation scripts of the fitness-app repository *)
(*   scripts/audit_and_clean_exercises_csv.py     ("audit", Variant A)     *)
(*   scripts/convert_functional_fitness_xlsx.py   ("convert", Variant B)   *)
(* Python strings are TLA+ strings; Char(s, i) is the one-character string *)
(* at position i.                                                          *)
(***************************************************************************)
EXTENDS Integers, Sequences, FiniteSets, TLC

(***************************************************************************)
(* Python str primitives used by the scripts.                              *)
(***************************************************************************)
Char(s, i) == SubSeq(s, i, i)

\* The characters str.strip() removes (the ASCII ones).
Whitespace == {" ", "\t", "\n", "\r"}

RECURSIVE lstrip_chars(_, _)
lstrip_chars(s, chars) ==
    IF Len(s) > 0 /\ Char(s, 1) \in chars
    THEN lstrip_chars(SubSeq(s, 2, Len(s)), chars)
    ELSE s

RECURSIVE rstrip_chars(_, _)
rstrip_chars(s, chars) ==
    IF Len(s) > 0 /\ Char(s, Len(s)) \in chars
    THEN rstrip_chars(SubSeq(s, 1, Len(s) - 1), chars)
    ELSE s

\* s.strip(chars)
strip_chars(s, chars) == rstrip_chars(lstrip_chars(s, chars), chars)

\* s.strip()
strip(s) == strip_chars(s, Whitespace)

\* s.startswith(p), s.endswith(p)
startswith(s, p) == Len(s) >= Len(p) /\ SubSeq(s, 1, Len(p)) = p
endswith(s, p) == Len(s) >= Len(p) /\ SubSeq(s, Len(s) - Len(p) + 1, Len(s)) = p

\* s.replace(old, new) for a one-character old
RECURSIVE replace(_, _, _)
replace(s, old, new) ==
    IF Len(s) = 0 THEN ""
    ELSE (IF Char(s, 1) = old THEN new ELSE Char(s, 1))
         \o replace(SubSeq(s, 2, Len(s)), old, new)

\* sep.join(parts)
RECURSIVE join(_, _)
join(sep, parts) ==
    IF Len(parts) = 0 THEN ""
    ELSE IF Len(parts) = 1 THEN parts[1]
    ELSE parts[1] \o sep \o join(sep, Tail(parts))

\* the position of the first sep in s at or after i, 0 when there is none
RECURSIVE find(_, _, _)
find(s, sep, i) ==
    IF i > Len(s) THEN 0
    ELSE IF Char(s, i) = sep THEN i
    ELSE find(s, sep, i + 1)

\* s.split(sep) for a one-character sep: always at least one piece
RECURSIVE split(_, _)
split(s, sep) ==
    LET k == find(s, sep, 1) IN
    IF k = 0 THEN <<s>>
    ELSE <<SubSeq(s, 1, k - 1)>> \o split(SubSeq(s, k + 1, Len(s)), sep)

\* sub in s
contains(s, sub) ==
    \E i \in 1..(Len(s) - Len(sub) + 1) : SubSeq(s, i, i + Len(sub) - 1) = sub

\* s[i:i+1]: the empty string past either end
CharAt(s, i) == IF i >= 1 /\ i <= Len(s) THEN SubSeq(s, i, i) ELSE ""

\* s.startswith(w, i - 1)
MatchAt(s, i, w) == i + Len(w) - 1 <= Len(s) /\ SubSeq(s, i, i + Len(w) - 1) = w

(***************************************************************************)
(* json.loads of the standard library, as the audit script calls it: the   *)
(* strict decoder on a str. A result is [ok, pos, val]: ok is FALSE where  *)
(* json.loads raises, pos is the position after the value, val the value.  *)
(* Values: strings, numbers (kept as their text), the literals, arrays and *)
(* objects. A \b, \f or \uXXXX escape decodes to a symbolic token; a float *)
(* is rendered by FloatStr.                                                *)
(***************************************************************************)
JStr(s) == [t |-> "str", s |-> s, items |-> <<>>]
JInt(s) == [t |-> "int", s |-> s, items |-> <<>>]
JFloat(s) == [t |-> "float", s |-> s, items |-> <<>>]
JLit(s) == [t |-> "lit", s |-> s, items |-> <<>>]
JList(items) == [t |-> "list", s |-> "", items |-> items]
JDict(pairs) == [t |-> "dict", s |-> "", items |-> pairs]

JFail == [ok |-> FALSE, pos |-> 0, val |-> JLit("null")]
JOk(pos, val) == [ok |-> TRUE, pos |-> pos, val |-> val]

Digits == {"0", "1", "2", "3", "4", "5", "6", "7", "8", "9"}
HexDigits == Digits \cup {"a", "b", "c", "d", "e", "f", "A", "B", "C", "D", "E", "F"}

\* json.decoder.WHITESPACE
RECURSIVE SkipWs(_, _)
SkipWs(s, i) ==
    IF CharAt(s, i) \in {" ", "\t", "\n", "\r"} THEN SkipWs(s, i + 1) ELSE i

RECURSIVE SkipDigits(_, _)
SkipDigits(s, i) == IF CharAt(s, i) \in Digits THEN SkipDigits(s, i + 1) ELSE i

\* json.decoder.BACKSLASH
Backslash ==
    [e \in {"\"", "\\", "/", "b", "f", "n", "r", "t"} |->
        CASE e = "\"" -> "\""
          [] e = "\\" -> "\\"
          [] e = "/" -> "/"
          [] e = "b" -> "<BS>"
          [] e = "f" -> "<FF>"
          [] e = "n" -> "\n"
          [] e = "r" -> "\r"
          [] e = "t" -> "\t"]

\* json.decoder.scanstring, strict: i is the position after the opening quote
RECURSIVE ScanString(_, _, _)
ScanString(s, i, acc) ==
    LET c == CharAt(s, i) IN
    IF c = "" THEN JFail
    ELSE IF c = "\"" THEN JOk(i + 1, JStr(acc))
    ELSE IF c = "\\" THEN
        LET e == CharAt(s, i + 1) IN
        IF e \in DOMAIN Backslash THEN ScanString(s, i + 2, acc \o Backslash[e])
        ELSE IF e = "u" /\ \A k \in 2..5 : CharAt(s, i + k) \in HexDigits
        THEN ScanString(s, i + 6, acc \o "<U+" \o SubSeq(s, i + 2, i + 5) \o ">")
        ELSE JFail
    ELSE IF c \in {"\t", "\n", "\r"} THEN JFail
    ELSE ScanString(s, i + 1, acc \o c)

\* json.scanner.NUMBER_RE matched at i: -?(0|[1-9]\d*)(\.\d+)?([eE][-+]?\d+)?
\* the end of the integer part that starts at j, 0 when there is none
IntEnd(s, j) ==
    IF CharAt(s, j) = "0" THEN j + 1
    ELSE IF CharAt(s, j) \in Digits THEN SkipDigits(s, j + 1)
    ELSE 0

\* the end of the fraction, if any, that follows the integer part
FracEnd(s, intEnd) ==
    IF CharAt(s, intEnd) = "." /\ CharAt(s, intEnd + 1) \in Digits
    THEN SkipDigits(s, intEnd + 1) ELSE intEnd

\* the end of the exponent, if any, whose digits would start at k
ExpEnd(s, fracEnd, k) ==
    IF CharAt(s, fracEnd) \in {"e", "E"} /\ CharAt(s, k) \in Digits
    THEN SkipDigits(s, k) ELSE fracEnd

NumberValue(s, i, intEnd, numEnd) ==
    IF intEnd = 0 THEN JFail
    ELSE IF numEnd = intEnd THEN JOk(numEnd, JInt(SubSeq(s, i, numEnd - 1)))
    ELSE JOk(numEnd, JFloat(SubSeq(s, i, numEnd - 1)))

NumberAfterFrac(s, i, intEnd, fracEnd) ==
    NumberValue(s, i, intEnd,
                ExpEnd(s, fracEnd,
                       IF CharAt(s, fracEnd + 1) \in {"+", "-"}
                       THEN fracEnd + 2 ELSE fracEnd + 1))

NumberAfterInt(s, i, intEnd) == NumberAfterFrac(s, i, intEnd, FracEnd(s, intEnd))

MatchNumber(s, i) == NumberAfterInt(s, i, IntEnd(s, IF CharAt(s, i) = "-" THEN i + 1 ELSE i))

RECURSIVE ParseValue(_, _)
RECURSIVE ParseArrayItems(_, _, _)
RECURSIVE ParseObjectItems(_, _, _)

\* json.decoder.JSONArray: after the items acc, j is past the whitespace
\* that follows them
ArrayAfterItems(s, j, items) ==
    IF CharAt(s, j) = "]" THEN JOk(j + 1, JList(items))
    ELSE IF CharAt(s, j) = "," THEN ParseArrayItems(s, SkipWs(s, j + 1), items)
    ELSE JFail

ArrayAfterValue(s, acc, v) ==
    IF ~v.ok THEN JFail
    ELSE ArrayAfterItems(s, SkipWs(s, v.pos), Append(acc, v.val))

\* json.decoder.JSONArray: i is at a value
ParseArrayItems(s, i, acc) == ArrayAfterValue(s, acc, ParseValue(s, i))

\* json.decoder.JSONObject: after the pairs, j is past the whitespace that
\* follows them
ObjectAfterPairs(s, j, pairs) ==
    IF CharAt(s, j) = "}" THEN JOk(j + 1, JDict(pairs))
    ELSE IF CharAt(s, j) = "," THEN ParseObjectItems(s, SkipWs(s, j + 1), pairs)
    ELSE JFail

ObjectAfterValue(s, acc, key, v) ==
    IF ~v.ok THEN JFail
    ELSE ObjectAfterPairs(s, SkipWs(s, v.pos), Append(acc, <<key, v.val>>))

\* c is past the whitespace that follows the key
ObjectAfterKeyWs(s, acc, key, c) ==
    IF CharAt(s, c) # ":" THEN JFail
    ELSE ObjectAfterValue(s, acc, key, ParseValue(s, SkipWs(s, c + 1)))

ObjectAfterKey(s, acc, key) ==
    IF ~key.ok THEN JFail
    ELSE ObjectAfterKeyWs(s, acc, key.val.s, SkipWs(s, key.pos))

\* json.decoder.JSONObject: i is where a key's opening quote must be
ParseObjectItems(s, i, acc) ==
    IF CharAt(s, i) # "\"" THEN JFail
    ELSE ObjectAfterKey(s, acc, ScanString(s, i + 1, ""))

\* an array or object whose first item, or closing bracket, is at j
ParseArray(s, j) ==
    IF CharAt(s, j) = "]" THEN JOk(j + 1, JList(<<>>)) ELSE ParseArrayItems(s, j, <<>>)

ParseObject(s, j) ==
    IF CharAt(s, j) = "}" THEN JOk(j + 1, JDict(<<>>)) ELSE ParseObjectItems(s, j, <<>>)

NumberOrConstant(s, i, num) ==
    IF num.ok THEN num
    ELSE IF MatchAt(s, i, "NaN") THEN JOk(i + 3, JLit("nan"))
    ELSE IF MatchAt(s, i, "Infinity") THEN JOk(i + 8, JLit("inf"))
    ELSE IF MatchAt(s, i, "-Infinity") THEN JOk(i + 9, JLit("-inf"))
    ELSE JFail

\* json.scanner.py_make_scanner._scan_once
ParseValue(s, i) ==
    IF CharAt(s, i) = "" THEN JFail
    ELSE IF CharAt(s, i) = "\"" THEN ScanString(s, i + 1, "")
    ELSE IF CharAt(s, i) = "{" THEN ParseObject(s, SkipWs(s, i + 1))
    ELSE IF CharAt(s, i) = "[" THEN ParseArray(s, SkipWs(s, i + 1))
    ELSE IF MatchAt(s, i, "null") THEN JOk(i + 4, JLit("None"))
    ELSE IF MatchAt(s, i, "true") THEN JOk(i + 4, JLit("True"))
    ELSE IF MatchAt(s, i, "false") THEN JOk(i + 5, JLit("False"))
    ELSE NumberOrConstant(s, i, MatchNumber(s, i))

\* JSONDecoder.decode refuses data after the value
WholeText(text, v) ==
    IF v.ok /\ SkipWs(text, v.pos) = Len(text) + 1 THEN v ELSE JFail

\* json.loads(text)
json_loads(text) == WholeText(text, ParseValue(text, SkipWs(text, 1)))

\* repr(float(text)) for a float written without an exponent and short enough
\* to be exact; one written with an exponent is kept as written
FloatStr(text) ==
    IF contains(text, "e") \/ contains(text, "E") THEN text
    ELSE LET parts == split(text, ".")
             frac == rstrip_chars(parts[2], {"0"})
         IN  parts[1] \o "." \o (IF frac = "" THEN "0" ELSE frac)

\* repr(s) of a str
ReprStr(s) ==
    LET q == IF contains(s, "'") /\ ~contains(s, "\"") THEN "\"" ELSE "'"
        e1 == replace(s, "\\", "\\\\")
        e2 == replace(replace(replace(e1, "\n", "\\n"), "\r", "\\r"), "\t", "\\t")
        e3 == IF q = "'" THEN replace(e2, "'", "\\'") ELSE e2
    IN  q \o e3 \o q

\* a dict built from the pairs in order: a repeated key keeps its first place
\* and takes the last value
RECURSIVE DictMerge(_, _)
DictMerge(pairs, acc) ==
    IF Len(pairs) = 0 THEN acc
    ELSE LET p == Head(pairs)
             at == {i \in 1..Len(acc) : acc[i][1] = p[1]}
         IN  IF at = {} THEN DictMerge(Tail(pairs), Append(acc, p))
             ELSE DictMerge(Tail(pairs),
                            [i \in 1..Len(acc) |-> IF i \in at THEN p ELSE acc[i]])

\* repr(v) of a decoded JSON value
RECURSIVE PyRepr(_)
PyRepr(v) ==
    CASE v.t = "str" -> ReprStr(v.s)
      [] v.t = "int" -> IF v.s = "-0" THEN "0" ELSE v.s
      [] v.t = "float" -> FloatStr(v.s)
      [] v.t = "lit" -> v.s
      [] v.t = "list" ->
            "[" \o join(", ", [i \in 1..Len(v.items) |-> PyRepr(v.items[i])]) \o "]"
      [] v.t = "dict" ->
            LET d == DictMerge(v.items, <<>>) IN
            "{" \o join(", ", [i \in 1..Len(d) |->
                                 ReprStr(d[i][1]) \o ": " \o PyRepr(d[i][2])]) \o "}"

\* str(v) of a decoded JSON value
PyStr(v) == IF v.t = "str" THEN v.s ELSE PyRepr(v)

(***************************************************************************)
(* A cell of a data frame: a missing value (None, or the float NaN that    *)
(* pandas reads an empty field as), a str, or a native list.               *)
(***************************************************************************)
None == [kind |-> "none", text |-> "", items |-> <<>>]
NaN == [kind |-> "nan", text |-> "", items |-> <<>>]
Str(s) == [kind |-> "str", text |-> s, items |-> <<>>]
List(items) == [kind |-> "list", text |-> "", items |-> items]
Bool(b) == [kind |-> "bool", text |-> IF b THEN "True" ELSE "False", items |-> <<>>]

\* str(value) of a cell
RECURSIVE CellStr(_)
CellStr(value) ==
    CASE value.kind = "none" -> "None"
      [] value.kind = "nan" -> "nan"
      [] value.kind = "str" -> value.text
      [] value.kind = "bool" -> value.text
      [] value.kind = "list" ->
            "[" \o join(", ", [i \in 1..Len(value.items) |-> ReprStr(value.items[i])]) \o "]"

(***************************************************************************)
(* audit_and_clean_exercises_csv.py                                        *)
(***************************************************************************)
_is_empty(value) ==
    \/ value.kind = "none"
    \/ value.kind = "nan"
    \/ value.kind = "str" /\ strip(value.text) = ""

\* a result of _parse_json_array: (items, was_valid_json)
Parsed(items, valid) == [items |-> items, valid |-> valid]

\* SelectSeq with an operator of the module
RECURSIVE NonBlank(_)
NonBlank(items) ==
    IF Len(items) = 0 THEN <<>>
    ELSE (IF strip(Head(items)) # "" THEN <<Head(items)>> ELSE <<>>)
         \o NonBlank(Tail(items))

\* lines 70-76: the fallback for a text that is not JSON
unquoted_pieces(pieces) ==
    [i \in 1..Len(pieces) |-> strip_chars(strip(pieces[i]), {"\""})]

brace_inner(inner) ==
    IF inner = "" THEN Parsed(<<>>, TRUE)
    ELSE Parsed(unquoted_pieces(split(inner, ",")), TRUE)

brace_fallback(text) ==
    IF startswith(text, "{") /\ endswith(text, "}")
    THEN brace_inner(strip(SubSeq(text, 2, Len(text) - 1)))
    ELSE Parsed(<<text>>, FALSE)

\* str(v) for v in parsed
item_strings(items) == [i \in 1..Len(items) |-> PyStr(items[i])]

\* lines 62-76
parse_loaded(text, parsed) ==
    IF parsed.ok
    THEN (IF parsed.val.t = "list"
          THEN Parsed(NonBlank(item_strings(parsed.val.items)), TRUE)
          ELSE Parsed(<<text>>, FALSE))
    ELSE brace_fallback(text)

\* lines 57-76
parse_text(text) ==
    IF text = "" THEN Parsed(<<>>, TRUE) ELSE parse_loaded(text, json_loads(text))

_parse_json_array(value) ==
    IF _is_empty(value) THEN Parsed(<<>>, TRUE)
    ELSE IF value.kind = "list" THEN Parsed(value.items, TRUE)
    ELSE parse_text(strip(CellStr(value)))

\* escape with a slip: the two replacements in the other order
escape_quote_first(s) == replace(replace(s, "\"", "\\\""), "\\", "\\\\")
\* line 85: backslash first, then the double quote
escape(s) == replace(replace(s, "\\", "\\\\"), "\"", "\\\"")

_pg_array_literal(items) ==
    "{" \o join(",", [i \in 1..Len(items) |-> "\"" \o escape(items[i]) \o "\""]) \o "}"

\* str(n) of a natural number
DigitStr == <<"0", "1", "2", "3", "4", "5", "6", "7", "8", "9">>

RECURSIVE IntStr(_)
IntStr(n) == IF n < 10 THEN DigitStr[n + 1] ELSE IntStr(n \div 10) \o DigitStr[(n % 10) + 1]

\* s.lower() and s.casefold() on ASCII text
UpperLetters == "ABCDEFGHIJKLMNOPQRSTUVWXYZ"
LowerLetters == "abcdefghijklmnopqrstuvwxyz"

UpperSet == {Char(UpperLetters, k) : k \in 1..Len(UpperLetters)}

LowerChar(c) ==
    IF c \in UpperSet THEN Char(LowerLetters, find(UpperLetters, c, 1)) ELSE c

RECURSIVE lower(_)
lower(s) == IF Len(s) = 0 THEN "" ELSE LowerChar(Char(s, 1)) \o lower(SubSeq(s, 2, Len(s)))

casefold(s) == lower(s)

\* s[:k]
Prefix(s, k) == SubSeq(s, 1, IF Len(s) < k THEN Len(s) ELSE k)

ARRAY_COLUMNS == {"muscle_groups", "equipment_needed", "instructions", "tips"}

\* line 128: at most this many invalid examples are kept per column
MaxExamples == 10
\* line 131: an example keeps this many characters of the raw text
ExampleTextLen == 200

ArrayParseStats(column) ==
    [column |-> column, total_rows |-> 0, empty_rows |-> 0,
     valid_json_rows |-> 0, invalid_json_rows |-> 0]

(***************************************************************************)
(* A data frame: n rows and, per column name, the column's cells.          *)
(***************************************************************************)
Frame(n, cells) == [n |-> n, cells |-> cells]
EmptyFrame == Frame(0, [c \in {} |-> <<>>])
Columns(frame) == DOMAIN frame.cells

\* df.isna() of a cell
isna(value) == value.kind \in {"none", "nan"}

\* (df.isna().mean() * 100) per column, kept as the pair (missing cells, rows);
\* the report lists the columns by descending percentage
missingness(frame) ==
    [c \in Columns(frame) |->
        <<Cardinality({i \in 1..frame.n : isna(frame.cells[c][i])}), frame.n>>]

\* Series.duplicated().sum(): the rows whose key equals an earlier row's
duplicated_sum(keys) ==
    Cardinality({i \in 1..Len(keys) : \E j \in 1..(i - 1) : keys[j] = keys[i]})

\* lines 98-102
dup_name_count(frame) ==
    IF "name" \in Columns(frame)
    THEN duplicated_sum([i \in 1..frame.n |->
                            lower(strip(CellStr(frame.cells["name"][i])))])
    ELSE 0

\* lines 108-112: the copy of the frame with the name column trimmed
trimmed_copy(frame) ==
    Frame(frame.n,
          [c \in Columns(frame) |->
              IF c = "name"
              THEN [i \in 1..frame.n |-> Str(strip(CellStr(frame.cells[c][i])))]
              ELSE frame.cells[c]])

\* count_row with a slip: an empty row is counted in the total only
count_row_drop_empty(stats, raw) ==
    IF _is_empty(raw) THEN [stats EXCEPT !.total_rows = @ + 1]
    ELSE IF _parse_json_array(raw).valid
    THEN [stats EXCEPT !.total_rows = @ + 1, !.valid_json_rows = @ + 1]
    ELSE [stats EXCEPT !.total_rows = @ + 1, !.invalid_json_rows = @ + 1]
\* lines 117-127: the counters of a column after one more row
count_row(stats, raw) ==
    IF _is_empty(raw)
    THEN [stats EXCEPT !.total_rows = @ + 1, !.empty_rows = @ + 1]
    ELSE IF _parse_json_array(raw).valid
    THEN [stats EXCEPT !.total_rows = @ + 1, !.valid_json_rows = @ + 1]
    ELSE [stats EXCEPT !.total_rows = @ + 1, !.invalid_json_rows = @ + 1]

\* lines 129-131: the example kept for the invalid row at 0-based index idx
example_of(frame, idx, raw) ==
    LET ex_id == IF "id" \in Columns(frame)
                 THEN CellStr(frame.cells["id"][idx + 1]) ELSE IntStr(idx)
        ex_name == IF "name" \in Columns(frame)
                   THEN CellStr(frame.cells["name"][idx + 1]) ELSE ""
    IN  <<strip(ex_id \o " " \o ex_name), Prefix(CellStr(raw), ExampleTextLen)>>

\* keep_example with a slip: every invalid row is kept as an example
keep_example_uncapped(examples, frame, idx, raw) ==
    IF ~_is_empty(raw) /\ ~_parse_json_array(raw).valid
    THEN Append(examples, example_of(frame, idx, raw))
    ELSE examples
\* lines 126-131: the examples of a column after one more row
keep_example(examples, frame, idx, raw) ==
    IF ~_is_empty(raw) /\ ~_parse_json_array(raw).valid /\ Len(examples) < MaxExamples
    THEN Append(examples, example_of(frame, idx, raw))
    ELSE examples

\* lines 118-133: the cell written for a raw value
clean_cell(raw) ==
    IF _is_empty(raw) THEN _pg_array_literal(<<>>)
    ELSE _pg_array_literal(_parse_json_array(raw).items)

\* bool(v) of a cell whose missing values were filled with False (line 142)
truthy(value) ==
    CASE value.kind \in {"none", "nan"} -> FALSE
      [] value.kind = "bool" -> value.text = "True"
      [] value.kind = "str" -> value.text # ""
      [] value.kind = "list" -> value.items # <<>>

NullableColumns ==
    {"description", "difficulty", "video_url", "image_url", "gif_url", "tips",
     "instructions", "exercisedb_id", "last_synced_at", "created_by"}

\* lines 137-149: booleans as lowercase tokens, missing nullable scalars as ""
coerce_scalars(frame) ==
    Frame(frame.n,
          [c \in Columns(frame) |->
              IF c \in {"is_compound", "is_custom"}
              THEN [i \in 1..frame.n |->
                        Str(IF truthy(frame.cells[c][i]) THEN "true" ELSE "false")]
              ELSE IF c \in NullableColumns /\ c \notin ARRAY_COLUMNS
              THEN [i \in 1..frame.n |->
                        IF isna(frame.cells[c][i]) THEN Str("") ELSE frame.cells[c][i]]
              ELSE frame.cells[c]])

(***************************************************************************)
(* convert_functional_fitness_xlsx.py: its own copies of the helpers       *)
(***************************************************************************)
_is_empty_convert(value) ==
    \/ value.kind = "none"
    \/ value.kind = "nan"
    \/ value.kind = "str" /\ strip(value.text) = ""

_clean_str(value) == IF _is_empty_convert(value) THEN "" ELSE strip(CellStr(value))

\* line 73
escape_convert(s) == replace(replace(s, "\\", "\\\\"), "\"", "\\\"")

_pg_array_literal_convert(items) ==
    "{" \o join(",", [i \in 1..Len(items) |-> "\"" \o escape_convert(items[i]) \o "\""]) \o "}"

EmptyCounts == [k \in {} |-> 0]

\* lines 54-66: the loop, with the set seen and the list out so far
RECURSIVE dedupe_loop(_, _, _)

\* dedupe_item with a slip: the comparison without case folding
dedupe_item_case_sensitive(rest, seen, out, s) ==
    IF s = "" THEN dedupe_loop(rest, seen, out)
    ELSE IF s \in seen THEN dedupe_loop(rest, seen, out)
    ELSE dedupe_loop(rest, seen \cup {s}, Append(out, s))
\* lines 58-65: one item of the loop
dedupe_item(rest, seen, out, s) ==
    IF s = "" THEN dedupe_loop(rest, seen, out)
    ELSE IF casefold(s) \in seen THEN dedupe_loop(rest, seen, out)
    ELSE dedupe_loop(rest, seen \cup {casefold(s)}, Append(out, s))

dedupe_loop(items, seen, out) ==
    IF Len(items) = 0 THEN out
    ELSE dedupe_item(Tail(items), seen, out, _clean_str(Head(items)))

_dedupe_case_insensitive(items) == dedupe_loop(items, {}, <<>>)

\* lines 80-88, on the folded level
difficulty_of(s) ==
    IF s = "" THEN ""
    ELSE IF s \in {"beginner", "novice"} THEN "beginner"
    ELSE IF s = "intermediate" THEN "intermediate"
    ELSE IF s \in {"advanced", "expert", "master", "grand master", "legendary"}
    THEN "advanced"
    ELSE ""

_map_difficulty(level) == difficulty_of(casefold(_clean_str(level)))

\* any(k in hint for k in keywords)
any_in(hint, keywords) == \E k \in keywords : contains(hint, k)

\* category_of with a slip: the back keywords before the chest keywords
category_back_first(br, upper_hint) ==
    IF br = "lower body" THEN "legs"
    ELSE IF br = "core" THEN "core"
    ELSE IF br = "full body" THEN "full_body"
    ELSE IF any_in(upper_hint, {"latissimus", "trapezi", "rhombo", "erector", "back"})
    THEN "back"
    ELSE IF any_in(upper_hint, {"pectoralis", "chest"}) THEN "chest"
    ELSE IF any_in(upper_hint, {"deltoid", "shoulder", "rotator"}) THEN "shoulders"
    ELSE IF any_in(upper_hint, {"biceps", "triceps", "forearm", "wrist", "brachii"})
    THEN "arms"
    ELSE IF br = "upper body" THEN "arms"
    ELSE "full_body"
\* lines 96-119, on the folded body region and the folded muscle text
category_of(br, upper_hint) ==
    IF br = "lower body" THEN "legs"
    ELSE IF br = "core" THEN "core"
    ELSE IF br = "full body" THEN "full_body"
    ELSE IF any_in(upper_hint, {"pectoralis", "chest"}) THEN "chest"
    ELSE IF any_in(upper_hint, {"latissimus", "trapezi", "rhombo", "erector", "back"})
    THEN "back"
    ELSE IF any_in(upper_hint, {"deltoid", "shoulder", "rotator"}) THEN "shoulders"
    ELSE IF any_in(upper_hint, {"biceps", "triceps", "forearm", "wrist", "brachii"})
    THEN "arms"
    ELSE IF br = "upper body" THEN "arms"
    ELSE "full_body"

_map_category(body_region, prime_mover, target_group) ==
    category_of(casefold(_clean_str(body_region)),
                casefold(_clean_str(prime_mover) \o " " \o _clean_str(target_group)))

\* str(uuid.uuid5(uuid.NAMESPACE_URL, name)): the SHA-1 name-based UUID of the
\* standard library. The digest is not computed: the id is a rendering of the
\* name, so distinct names have distinct ids (no collision of the digest).
uuid5_url(name) == "<" \o name \o ">"

\* lines 122-124
_stable_exercise_id(key) == uuid5_url("functional-fitness:" \o key)

\* s.split(): the words of s between runs of whitespace
RECURSIVE words(_, _, _)
words(s, word, acc) ==
    IF Len(s) = 0 THEN (IF word = "" THEN acc ELSE Append(acc, word))
    ELSE IF Char(s, 1) \in Whitespace
    THEN words(SubSeq(s, 2, Len(s)), "", IF word = "" THEN acc ELSE Append(acc, word))
    ELSE words(SubSeq(s, 2, Len(s)), word \o Char(s, 1), acc)

\* line 210
normalize_name(name) == join(" ", words(name, "", <<>>))

\* row.get(header) of row i (1-based) of a frame
get(frame, i, header) ==
    IF header \in Columns(frame) THEN frame.cells[header][i] ELSE None

\* lines 189-191: the hyperlink targets cut or padded to n rows
align(urls, n) ==
    [i \in 1..n |-> Str(IF i <= Len(urls) THEN urls[i] ELSE "")]

\* lines 150-167: the targets that are not empty
count_links(urls) == Cardinality({i \in 1..Len(urls) : urls[i] # ""})

\* video with a slip: the in-depth link preferred
video_long_first(short_url, long_url) == IF long_url # "" THEN long_url ELSE short_url
\* line 253: the short demonstration is preferred
video(short_url, long_url) == IF short_url # "" THEN short_url ELSE long_url

\* lines 255-269: the labelled values that are not empty
RECURSIVE labelled(_)
labelled(pairs) ==
    IF Len(pairs) = 0 THEN <<>>
    ELSE (IF Head(pairs)[2] # "" THEN <<Head(pairs)[1] \o ": " \o Head(pairs)[2]>> ELSE <<>>)
         \o labelled(Tail(pairs))

\* lines 271-272
in_depth_tip(long_url, video_url) ==
    IF long_url # "" /\ long_url # video_url
    THEN <<"In-depth video: " \o long_url>> ELSE <<>>

\* lines 255-272
tips_of(frame, i, long_url, video_url) ==
    labelled(<< <<"Classification", _clean_str(get(frame, i, "Primary Exercise Classification"))>>,
                <<"Mechanics", _clean_str(get(frame, i, "Mechanics"))>>,
                <<"Movement", _clean_str(get(frame, i, "Movement Pattern #1"))>>,
                <<"Movement", _clean_str(get(frame, i, "Movement Pattern #2"))>>,
                <<"Movement", _clean_str(get(frame, i, "Movement Pattern #3"))>>,
                <<"Posture", _clean_str(get(frame, i, "Posture"))>>,
                <<"Grip", _clean_str(get(frame, i, "Grip"))>>,
                <<"Load position", _clean_str(get(frame, i, "Load Position (Ending)"))>>,
                <<"Laterality", _clean_str(get(frame, i, "Laterality"))>>,
                <<"Force type", _clean_str(get(frame, i, "Force Type"))>> >>)
    \o in_depth_tip(long_url, video_url)

\* the separator of line 281, a middle dot between two spaces
MiddleDot == " <MIDDLE DOT> "

\* lines 275-281
description_of(frame, i) ==
    join(MiddleDot,
         SubSeq(_dedupe_case_insensitive(
                    << Str(_clean_str(get(frame, i, "Primary Exercise Classification"))),
                       Str(_clean_str(get(frame, i, "Movement Pattern #1"))),
                       Str(_clean_str(get(frame, i, "Target Muscle Group"))),
                       Str(_clean_str(get(frame, i, "Body Region"))) >>),
                1,
                IF Len(_dedupe_case_insensitive(
                    << Str(_clean_str(get(frame, i, "Primary Exercise Classification"))),
                       Str(_clean_str(get(frame, i, "Movement Pattern #1"))),
                       Str(_clean_str(get(frame, i, "Target Muscle Group"))),
                       Str(_clean_str(get(frame, i, "Body Region"))) >>)) < 4
                THEN Len(_dedupe_case_insensitive(
                    << Str(_clean_str(get(frame, i, "Primary Exercise Classification"))),
                       Str(_clean_str(get(frame, i, "Movement Pattern #1"))),
                       Str(_clean_str(get(frame, i, "Target Muscle Group"))),
                       Str(_clean_str(get(frame, i, "Body Region"))) >>))
                ELSE 4))

\* id_key with a slip: the key without the movement pattern
id_key_without_movement(frame, i, norm_name) ==
    join("|", << norm_name,
                 _clean_str(get(frame, i, "Primary Equipment")),
                 _clean_str(get(frame, i, "Prime Mover Muscle")) >>)
\* lines 284-289: the fields an id is derived from, joined by '|'
id_key(frame, i, norm_name) ==
    join("|", << norm_name,
                 _clean_str(get(frame, i, "Primary Equipment")),
                 _clean_str(get(frame, i, "Prime Mover Muscle")),
                 _clean_str(get(frame, i, "Movement Pattern #1")) >>)

\* lines 294-316: the output row of row i, whose name is not empty
out_row(frame, i, norm_name, short_url, long_url, now) ==
    [id |-> _stable_exercise_id(id_key(frame, i, norm_name)),
     name |-> norm_name,
     description |-> description_of(frame, i),
     category |-> _map_category(Str(_clean_str(get(frame, i, "Body Region"))),
                                Str(_clean_str(get(frame, i, "Prime Mover Muscle"))),
                                Str(_clean_str(get(frame, i, "Target Muscle Group")))),
     muscle_groups |-> _pg_array_literal_convert(_dedupe_case_insensitive(
        << Str(_clean_str(get(frame, i, "Target Muscle Group"))),
           Str(_clean_str(get(frame, i, "Prime Mover Muscle"))),
           Str(_clean_str(get(frame, i, "Secondary Muscle"))),
           Str(_clean_str(get(frame, i, "Tertiary Muscle"))) >>)),
     equipment_needed |-> _pg_array_literal_convert(_dedupe_case_insensitive(
        << Str(_clean_str(get(frame, i, "Primary Equipment"))),
           Str(_clean_str(get(frame, i, "Secondary Equipment"))) >>)),
     difficulty |-> _map_difficulty(Str(_clean_str(get(frame, i, "Difficulty Level")))),
     instructions |-> _pg_array_literal_convert(<<>>),
     video_url |-> video(short_url, long_url),
     image_url |-> "",
     is_compound |-> IF casefold(_clean_str(get(frame, i, "Mechanics"))) = "compound"
                     THEN "true" ELSE "false",
     is_custom |-> "false",
     created_by |-> "",
     created_at |-> now,
     exercisedb_id |-> "",
     gif_url |-> "",
     tips |-> _pg_array_literal_convert(
                  tips_of(frame, i, long_url, video(short_url, long_url))),
     last_synced_at |-> "",
     sync_status |-> "pending"]

\* lines 206-210: the normalized name of row i, "" when the row is skipped
row_name(frame, i) == normalize_name(_clean_str(get(frame, i, "Exercise")))

\* lines 211-212
count_name(name_counts, name_key) ==
    IF name_key \in DOMAIN name_counts
    THEN [name_counts EXCEPT ![name_key] = @ + 1]
    ELSE [k \in DOMAIN name_counts \cup {name_key} |->
             IF k = name_key THEN 1 ELSE name_counts[k]]

\* lines 323-330: the ids after the de-duplication pass over the ids so far
RECURSIVE rederive_loop(_, _, _)

\* rederive_item with a slip: the id hashed again without the occurrence index
rederive_item_unnumbered(rest, seen, new_ids, eid) ==
    rederive_loop(rest, count_name(seen, eid),
                  Append(new_ids,
                         IF eid \notin DOMAIN seen THEN eid
                         ELSE _stable_exercise_id(eid)))
\* lines 324-329: one id of the loop
rederive_item(rest, seen, new_ids, eid) ==
    rederive_loop(rest, count_name(seen, eid),
                  Append(new_ids,
                         IF eid \notin DOMAIN seen THEN eid
                         ELSE _stable_exercise_id(eid \o ":" \o IntStr(seen[eid] + 1))))

rederive_loop(ids, seen, new_ids) ==
    IF Len(ids) = 0 THEN new_ids
    ELSE rederive_item(Tail(ids), seen, new_ids, Head(ids))

\* lines 322-331: the frame of output rows with its ids de-duplicated
dedupe_ids(rows) ==
    IF \E i \in 1..Len(rows) : \E j \in 1..(i - 1) : rows[j].id = rows[i].id
    THEN [i \in 1..Len(rows) |->
             [rows[i] EXCEPT !.id =
                 rederive_loop([k \in 1..Len(rows) |-> rows[k].id], EmptyCounts, <<>>)[i]]]
    ELSE rows

(***************************************************************************)
(* State. One process runs one script: script, pc and the two output files *)
(* are shared, the rest belongs to one script. The c_ variables are the    *)
(* array codec exercised on its own.                                       *)
(***************************************************************************)
VARIABLES
    script,            \* "audit", "convert", or "none" when no script runs
    run,               \* the number of the run of the script, from 1
    pc,                \* the position of main()
    source,            \* the input artifact: missing, unreadable, or a table
    table_file,        \* the transformed table on disk
    report_file,       \* the audit report on disk
    df,                \* the frame read from the input
    na_pct,            \* audit: missingness per column
    dup_name,          \* audit: duplicate names
    parse_stats,       \* audit: column -> ArrayParseStats
    invalid_examples,  \* audit: column -> examples
    cleaned,           \* audit: the frame being cleaned
    todo,              \* audit: the array columns still to process
    col,               \* audit: the array column being processed
    idx,               \* the 0-based row index of the row loop
    new_values,        \* audit: the new cells of the column so far
    link_counts,       \* convert: the hyperlinks found per link column
    now_utc,           \* convert: the timestamp taken by the run
    out_rows,          \* convert: the output rows built so far
    name_counts,       \* convert: folded name -> rows with that name
    out_df,            \* convert: the frame of output rows
    imported,          \* convert: the table the previous run wrote
    c_pc, c_script, c_items, c_literal, c_decoded,
    m_pc, m_args, m_category,
    d_pc, d_items, d_out

run_vars == <<script, run, pc, source, table_file, report_file>>
audit_vars == <<na_pct, dup_name, parse_stats, invalid_examples, cleaned,
                todo, col, new_values>>
loop_vars == <<df, idx>>
convert_vars == <<link_counts, now_utc, out_rows, name_counts, out_df, imported>>
codec_vars == <<c_pc, c_script, c_items, c_literal, c_decoded>>
fn_vars == <<m_pc, m_args, m_category, d_pc, d_items, d_out>>
vars == <<run_vars, audit_vars, loop_vars, convert_vars, codec_vars, fn_vars>>

\* a file on disk: absent, written in part (the write failed), or written;
\* by is the run that wrote it last
File(status, content, by) == [status |-> status, content |-> content, by |-> by]
AbsentFile == File("absent", <<>>, 0)
PartialFile(by) == File("partial", <<>>, by)

\* what a write that raises leaves on disk: the file as it was, or a part
FailedWrite(file, by) == {file, PartialFile(by)}

Missing == [kind |-> "missing", table |-> EmptyFrame]
Unreadable == [kind |-> "unreadable", table |-> EmptyFrame]
Table(frame) == [kind |-> "table", table |-> frame]

EmptyMap == [c \in {} |-> <<>>]

RunIdle ==
    /\ script = "none" /\ run = 0 /\ pc = "idle" /\ source = Missing
    /\ table_file = AbsentFile /\ report_file = AbsentFile
    /\ df = EmptyFrame /\ idx = 0

AuditIdle ==
    /\ na_pct = EmptyMap /\ dup_name = 0
    /\ parse_stats = EmptyMap /\ invalid_examples = EmptyMap
    /\ cleaned = EmptyFrame /\ todo = {} /\ col = ""
    /\ new_values = <<>>

ConvertIdle ==
    /\ link_counts = <<0, 0>> /\ now_utc = ""
    /\ out_rows = <<>> /\ name_counts = EmptyCounts
    /\ out_df = <<>> /\ imported = <<>>

CodecIdle ==
    /\ c_pc = "idle" /\ c_script = "audit" /\ c_items = <<>>
    /\ c_literal = "" /\ c_decoded = Parsed(<<>>, TRUE)

FnIdle ==
    /\ m_pc = "idle" /\ m_args = <<None, None, None>> /\ m_category = ""
    /\ d_pc = "idle" /\ d_items = <<>> /\ d_out = <<>>

(***************************************************************************)
(* The array codec on its own: Encode a sequence of strings with either    *)
(* script's _pg_array_literal, then Decode the literal with the audit      *)
(* script's _parse_json_array.                                             *)
(***************************************************************************)
MaxItems == 2

\* the strings an encoded sequence is made of
ItemPool == {"", "a", "B c", " a", "a,b", "{}", "a\"b", "c\\d", "\\\""}

RECURSIVE SeqsUpTo(_, _)
SeqsUpTo(S, n) ==
    IF n = 0 THEN {<<>>}
    ELSE LET shorter == SeqsUpTo(S, n - 1) IN
         shorter \cup {Append(q, x) : q \in {r \in shorter : Len(r) = n - 1}, x \in S}

CodecInit ==
    /\ c_pc = "start"
    /\ c_script \in {"audit", "convert"}
    /\ c_items \in SeqsUpTo(ItemPool, MaxItems)
    /\ c_literal = ""
    /\ c_decoded = Parsed(<<>>, TRUE)
    /\ RunIdle /\ AuditIdle /\ ConvertIdle /\ FnIdle

Encode ==
    /\ c_pc = "start"
    /\ c_literal' = IF c_script = "audit" THEN _pg_array_literal(c_items)
                    ELSE _pg_array_literal_convert(c_items)
    /\ c_pc' = "encoded"
    /\ UNCHANGED <<c_script, c_items, c_decoded, run_vars, audit_vars, loop_vars,
                   convert_vars, fn_vars>>

Decode ==
    /\ c_pc = "encoded"
    /\ c_script = "audit"
    /\ c_decoded' = _parse_json_array(Str(c_literal))
    /\ c_pc' = "decoded"
    /\ UNCHANGED <<c_script, c_items, c_literal, run_vars, audit_vars, loop_vars,
                   convert_vars, fn_vars>>

CodecNext == Encode \/ Decode

SpecCodec == CodecInit /\ [][CodecNext]_vars

(***************************************************************************)
(* A run of audit_and_clean_exercises_csv.py: main(), lines 90-187.        *)
(***************************************************************************)
MaxRows == 2
LongRows == 12

\* the raw values of an array column's cells
RawValues ==
    {NaN, Str("  "), Str("[\"a\", \"b\"]"), Str("[\"a\", \"\"]"), Str("{\"a\",\"b\"}"),
     Str("{}"), Str("a, b"), Str(" a"), Str("\"a\"")}

TipsValues == {NaN, Str("[\"t\"]"), Str("tip")}

\* a column of n cells: a first cell, then the same cell in every later row
Patterns(n, pool) == {[i \in 1..n |-> IF i = 1 THEN h ELSE f] : h \in pool, f \in pool}

\* the cells of the scalar columns of the model's tables, row by row
IdAt(i) == Str("x" \o IntStr(i))
NameAt(i) == <<Str(" Squat"), Str("squat"), Str("Lunge ")>>[((i - 1) % 3) + 1]
CompoundAt(i) == <<Bool(TRUE), NaN, Bool(FALSE)>>[((i - 1) % 3) + 1]
DescriptionAt(i) == <<Str("text"), NaN>>[((i - 1) % 2) + 1]

ScalarCell(c, i) ==
    CASE c = "id" -> IdAt(i)
      [] c = "name" -> NameAt(i)
      [] c = "is_compound" -> CompoundAt(i)
      [] c = "description" -> DescriptionAt(i)

ScalarColumnSets == {{}, {"name"}, {"id", "name", "is_compound", "description"}}

\* the frame with the given scalar columns and array columns
AuditFrame(n, scalars, arrays) ==
    Frame(n, [c \in scalars \cup DOMAIN arrays |->
                 IF c \in scalars THEN [i \in 1..n |-> ScalarCell(c, i)] ELSE arrays[c]])

\* the array columns of a table: any of muscle_groups and tips
ArrayCells(n, names) ==
    {[c \in names |-> IF c = "tips" THEN tp ELSE mg] :
        mg \in Patterns(n, RawValues), tp \in Patterns(n, TipsValues)}

\* the tables the audit script is run on: short ones with up to two array
\* columns, long ones with one
ShortTables(n) ==
    {AuditFrame(n, s, a) :
        s \in ScalarColumnSets,
        a \in UNION {ArrayCells(n, names) : names \in SUBSET {"muscle_groups", "tips"}}}

LongTables(n) ==
    {AuditFrame(n, s, a) :
        s \in {{}, {"id", "name"}}, a \in ArrayCells(n, {"muscle_groups"})}

\* the tables of n rows with the one column name, whose cells are a name,
\* the name in another casing and padding, the name with a wider gap between
\* its words, a missing name, or another name
NameTables(n) ==
    {Frame(n, [c \in {"name"} |-> names]) :
        names \in [1..n -> {Str("Back Squat"), Str(" back squat"), Str("Back  Squat"),
                            NaN, Str("Lunge")}]}

AuditTables ==
    UNION {ShortTables(n) : n \in 0..MaxRows}
    \cup UNION {LongTables(n) : n \in (MaxRows + 1)..LongRows}
    \cup UNION {NameTables(n) : n \in 0..MaxRows}

AuditInit ==
    /\ script = "audit"
    /\ pc = "start"
    /\ source \in {Missing, Unreadable} \cup {Table(f) : f \in AuditTables}
    /\ table_file = AbsentFile
    /\ report_file = AbsentFile
    /\ run = 1
    /\ df = EmptyFrame /\ idx = 0
    /\ AuditIdle /\ ConvertIdle /\ CodecIdle /\ FnIdle

\* lines 91-92: raise SystemExit when the input is missing
AuditMissingInput ==
    /\ script = "audit" /\ pc = "start"
    /\ source.kind = "missing"
    /\ pc' = "aborted"
    /\ UNCHANGED <<script, run, source, table_file, report_file, audit_vars, loop_vars,
                   convert_vars, codec_vars, fn_vars>>

\* line 94: pd.read_csv raises on a file it cannot read as CSV
AuditReadFails ==
    /\ script = "audit" /\ pc = "start"
    /\ source.kind = "unreadable"
    /\ pc' = "aborted"
    /\ UNCHANGED <<script, run, source, table_file, report_file, audit_vars, loop_vars,
                   convert_vars, codec_vars, fn_vars>>

\* lines 94-112
AuditLoad ==
    /\ script = "audit" /\ pc = "start"
    /\ source.kind = "table"
    /\ df' = source.table
    /\ na_pct' = missingness(source.table)
    /\ dup_name' = dup_name_count(source.table)
    /\ parse_stats' = [c \in ARRAY_COLUMNS \cap Columns(source.table) |-> ArrayParseStats(c)]
    /\ invalid_examples' = [c \in ARRAY_COLUMNS \cap Columns(source.table) |-> <<>>]
    /\ cleaned' = trimmed_copy(source.table)
    /\ todo' = ARRAY_COLUMNS \cap Columns(source.table)
    /\ pc' = "columns"
    /\ UNCHANGED <<script, run, source, table_file, report_file, col, idx, new_values, convert_vars, codec_vars,
                   fn_vars>>

\* lines 114-116: the next array column, in the dict's (arbitrary) order
AuditNextColumn ==
    /\ script = "audit" /\ pc = "columns"
    /\ \E c \in todo :
        /\ col' = c
        /\ todo' = todo \ {c}
    /\ idx' = 0
    /\ new_values' = <<>>
    /\ pc' = "rows"
    /\ UNCHANGED <<script, run, source, table_file, report_file, df, na_pct, dup_name,
                   parse_stats, invalid_examples, cleaned, convert_vars, codec_vars,
                   fn_vars>>

\* lines 116-133: one row of the inner loop
AuditRow ==
    /\ script = "audit" /\ pc = "rows"
    /\ idx < df.n
    /\ LET raw == df.cells[col][idx + 1] IN
        /\ parse_stats' = [parse_stats EXCEPT ![col] = count_row(@, raw)]
        /\ invalid_examples' =
               [invalid_examples EXCEPT ![col] = keep_example(@, df, idx, raw)]
        /\ new_values' = Append(new_values, clean_cell(raw))
    /\ idx' = idx + 1
    /\ UNCHANGED <<script, run, pc, source, table_file, report_file, df, na_pct, dup_name,
                   cleaned, todo, col, convert_vars, codec_vars,
                   fn_vars>>

\* line 135
AuditEndColumn ==
    /\ script = "audit" /\ pc = "rows"
    /\ idx = df.n
    /\ cleaned' = [cleaned EXCEPT !.cells[col] = [i \in 1..df.n |-> Str(new_values[i])]]
    /\ pc' = "columns"
    /\ UNCHANGED <<script, run, source, table_file, report_file, df, na_pct, dup_name,
                   parse_stats, invalid_examples, todo, col, idx, new_values, convert_vars, codec_vars,
                   fn_vars>>

\* lines 137-149
AuditCoerce ==
    /\ script = "audit" /\ pc = "columns"
    /\ todo = {}
    /\ cleaned' = coerce_scalars(cleaned)
    /\ pc' = "write_table"
    /\ UNCHANGED <<script, run, source, table_file, report_file, df, na_pct, dup_name,
                   parse_stats, invalid_examples, todo, col, idx, new_values, convert_vars, codec_vars,
                   fn_vars>>

\* lines 152-153
AuditWriteTable ==
    /\ script = "audit" /\ pc = "write_table"
    /\ table_file' = File("written", cleaned, run)
    /\ pc' = "write_report"
    /\ UNCHANGED <<script, run, source, report_file, audit_vars, loop_vars,
                   convert_vars, codec_vars, fn_vars>>

\* lines 152-153: mkdir or to_csv raises OSError
AuditWriteTableFails ==
    /\ script = "audit" /\ pc = "write_table"
    /\ table_file' \in FailedWrite(table_file, run)
    /\ pc' = "aborted"
    /\ UNCHANGED <<script, run, source, report_file, audit_vars, loop_vars,
                   convert_vars, codec_vars, fn_vars>>

\* lines 155-184: the report's content
audit_report ==
    [rows |-> df.n, columns |-> Cardinality(Columns(df)), dup_name |-> dup_name,
     na_pct |-> na_pct, parse_stats |-> parse_stats,
     invalid_examples |->
        [c \in {x \in DOMAIN invalid_examples : invalid_examples[x] # <<>>} |->
            invalid_examples[c]]]

\* lines 155-187
AuditWriteReport ==
    /\ script = "audit" /\ pc = "write_report"
    /\ report_file' = File("written", audit_report, run)
    /\ pc' = "done"
    /\ UNCHANGED <<script, run, source, table_file, audit_vars, loop_vars,
                   convert_vars, codec_vars, fn_vars>>

\* line 184: write_text raises OSError
AuditWriteReportFails ==
    /\ script = "audit" /\ pc = "write_report"
    /\ report_file' \in FailedWrite(report_file, run)
    /\ pc' = "aborted"
    /\ UNCHANGED <<script, run, source, table_file, audit_vars, loop_vars,
                   convert_vars, codec_vars, fn_vars>>

AuditNext ==
    \/ AuditMissingInput
    \/ AuditReadFails
    \/ AuditLoad
    \/ AuditNextColumn
    \/ AuditRow
    \/ AuditEndColumn
    \/ AuditCoerce
    \/ AuditWriteTable
    \/ AuditWriteTableFails
    \/ AuditWriteReport
    \/ AuditWriteReportFails

SpecAudit == AuditInit /\ [][AuditNext]_vars

(***************************************************************************)
(* _map_category on its own: MapCategory applies it to a body region, a    *)
(* prime mover and a target group.                                         *)
(***************************************************************************)
RegionPool ==
    {NaN, Str("Lower Body"), Str(" lower body "), Str("Core"), Str("Full Body"),
     Str("Upper Body"), Str("Midsection"), Str("Lower Body Core")}

MoverPool ==
    {NaN, Str("Pectoralis Major"), Str("Latissimus Dorsi"), Str("Lateral Deltoid"),
     Str("Biceps Brachii"), Str("Brachialis"), Str("Trapezius"), Str("Rhomboids"),
     Str("Rectus Abdominis")}

TargetPool ==
    {NaN, Str("Chest"), Str("Back"), Str("Shoulders"), Str("Lats"), Str("Arm"),
     Str("Forearms"), Str("Traps"), Str("Glutes")}

CategoryInit ==
    /\ m_pc = "start"
    /\ m_args \in RegionPool \X MoverPool \X TargetPool
    /\ m_category = ""
    /\ d_pc = "idle" /\ d_items = <<>> /\ d_out = <<>>
    /\ RunIdle /\ AuditIdle /\ ConvertIdle /\ CodecIdle

MapCategory ==
    /\ m_pc = "start"
    /\ m_category' = _map_category(m_args[1], m_args[2], m_args[3])
    /\ m_pc' = "done"
    /\ UNCHANGED <<m_args, d_pc, d_items, d_out, run_vars, audit_vars, loop_vars,
                   convert_vars, codec_vars>>

SpecCategory == CategoryInit /\ [][MapCategory]_vars

(***************************************************************************)
(* _dedupe_case_insensitive on its own: Dedupe applies it to a sequence of *)
(* cells.                                                                  *)
(***************************************************************************)
MaxDedupeItems == 3

DedupePool ==
    {NaN, None, Str(""), Str("  "), Str("Biceps"), Str("biceps "), Str(" BICEPS"),
     Str("Triceps"), Str("triceps")}

DedupeInit ==
    /\ d_pc = "start"
    /\ d_items \in SeqsUpTo(DedupePool, MaxDedupeItems)
    /\ d_out = <<>>
    /\ m_pc = "idle" /\ m_args = <<None, None, None>> /\ m_category = ""
    /\ RunIdle /\ AuditIdle /\ ConvertIdle /\ CodecIdle

Dedupe ==
    /\ d_pc = "start"
    /\ d_out' = _dedupe_case_insensitive(d_items)
    /\ d_pc' = "done"
    /\ UNCHANGED <<d_items, m_pc, m_args, m_category, run_vars, audit_vars, loop_vars,
                   convert_vars, codec_vars>>

SpecDedupe == DedupeInit /\ [][Dedupe]_vars

(***************************************************************************)
(* A run of convert_functional_fitness_xlsx.py, and the runs after it over *)
(* the same workbook.                                                      *)
(***************************************************************************)
MaxSourceRows == 3
MaxRuns == 2

\* the columns of the model's sheets, as pandas reads them; the columns of
\* the real sheet that are left out ("Tertiary Muscle", "Posture", "Force
\* Type", "Laterality", "Load Position (Ending)", "Movement Pattern #2" and
\* "#3") read as None in every row
Headers ==
    {"Exercise", "Short YouTube Demonstration", "In-Depth YouTube Explanation",
     "Difficulty Level", "Target Muscle Group", "Prime Mover Muscle",
     "Secondary Muscle", "Primary Equipment", "Secondary Equipment", "Grip",
     "Movement Pattern #1", "Mechanics", "Body Region",
     "Primary Exercise Classification"}

\* a row of the sheet: the cells pandas reads, and under "short" and "long"
\* the hyperlink targets openpyxl reads from the two link cells
Squat ==
    ("Exercise" :> Str("Back Squat")) @@ ("Difficulty Level" :> Str("Novice"))
    @@ ("Target Muscle Group" :> Str("Quads"))
    @@ ("Prime Mover Muscle" :> Str("Quadriceps"))
    @@ ("Secondary Muscle" :> Str("quads "))
    @@ ("Primary Equipment" :> Str("Barbell")) @@ ("Secondary Equipment" :> NaN)
    @@ ("Grip" :> NaN) @@ ("Movement Pattern #1" :> Str("Knee"))
    @@ ("Mechanics" :> Str("Compound")) @@ ("Body Region" :> Str("Lower Body"))
    @@ ("Primary Exercise Classification" :> NaN)
    @@ ("short" :> "yt/s1") @@ ("long" :> "yt/l1")

With(row, header, value) == [row EXCEPT ![header] = value]

\* the rows the model's sheets are made of: a row, a row with the same key
\* fields (the name written differently), rows that differ from it in one key
\* field, and a row without a name
RowPool ==
    {Squat,
     With(With(With(With(Squat, "Exercise", Str(" Back  Squat ")),
                    "Target Muscle Group", Str("Glutes")),
               "short", ""), "long", " yt/l2"),
     With(With(With(Squat, "Exercise", Str("back squat")), "long", "yt/s1"),
          "Grip", Str("Wi\"de")),
     With(With(With(Squat, "Primary Equipment", Str("Dumbbell")), "long", ""),
          "Secondary Equipment", Str("Bench")),
     With(With(With(With(Squat, "Prime Mover Muscle", Str("Pectoralis")),
                    "Body Region", Str("Upper Body")),
               "short", ""), "long", ""),
     With(With(Squat, "Movement Pattern #1", Str("Hinge")),
          "Primary Exercise Classification", Str("Quads")),
     With(Squat, "Exercise", NaN)}

\* the display text of a link cell
LinkText(url) == IF url = "" THEN NaN ELSE Str("Video Demonstration")

SheetCell(row, header) ==
    IF header = "Short YouTube Demonstration" THEN LinkText(row["short"])
    ELSE IF header = "In-Depth YouTube Explanation" THEN LinkText(row["long"])
    ELSE row[header]

\* the frame pandas reads from a sheet of the given rows
SheetFrame(rows) ==
    Frame(Len(rows), [h \in Headers |-> [i \in 1..Len(rows) |-> SheetCell(rows[i], h)]])

\* the hyperlink targets of a link column, for the rows openpyxl iterates:
\* the rows pandas read and, for the sheets that are not the longest, one row
\* fewer or one empty row more
LinkLists(rows, key) ==
    {[i \in 1..Len(rows) |-> rows[i][key]]}
    \cup (IF Len(rows) = MaxSourceRows THEN {}
          ELSE {[i \in 1..(Len(rows) + 1) |-> IF i <= Len(rows) THEN rows[i][key] ELSE ""]})
    \cup (IF Len(rows) \in {0, MaxSourceRows} THEN {}
          ELSE {[i \in 1..(Len(rows) - 1) |-> rows[i][key]]})

Workbook(frame, short_urls, long_urls) ==
    [kind |-> "table", table |-> frame, short_urls |-> short_urls, long_urls |-> long_urls]

\* the two link columns are iterated over the same rows
WorkbooksOf(rows) ==
    {Workbook(SheetFrame(rows), urls[1], urls[2]) :
        urls \in {u \in LinkLists(rows, "short") \X LinkLists(rows, "long") :
                     Len(u[1]) = Len(u[2])}}

Workbooks == UNION {WorkbooksOf(rows) : rows \in SeqsUpTo(RowPool, MaxSourceRows)}

\* line 200: the clock at the start of a run, later in each later run
Clock(r) == "2026-01-0" \o IntStr(r) \o " 00:00:00+00"

ConvertInit ==
    /\ script = "convert"
    /\ run = 1
    /\ pc = "start"
    /\ source \in {Missing, Unreadable} \cup Workbooks
    /\ table_file = AbsentFile
    /\ report_file = AbsentFile
    /\ df = EmptyFrame /\ idx = 0
    /\ AuditIdle /\ ConvertIdle /\ CodecIdle /\ FnIdle

\* lines 173-174: raise SystemExit when the workbook is missing
ConvertMissingInput ==
    /\ script = "convert" /\ pc = "start"
    /\ source.kind = "missing"
    /\ pc' = "aborted"
    /\ UNCHANGED <<script, run, source, table_file, report_file, audit_vars, loop_vars,
                   convert_vars, codec_vars, fn_vars>>

\* line 177: pd.read_excel raises on a file it cannot read as a workbook
ConvertReadFails ==
    /\ script = "convert" /\ pc = "start"
    /\ source.kind = "unreadable"
    /\ pc' = "aborted"
    /\ UNCHANGED <<script, run, source, table_file, report_file, audit_vars, loop_vars,
                   convert_vars, codec_vars, fn_vars>>

\* lines 177-203: the frame with the two link columns, the timestamp, and the
\* empty accumulators; the frame's column names are already trimmed (line 184)
ConvertLoad ==
    /\ script = "convert" /\ pc = "start"
    /\ source.kind = "table"
    /\ df' = Frame(source.table.n,
                   [c \in Columns(source.table) \cup {"__short_youtube_url", "__long_youtube_url"} |->
                       IF c = "__short_youtube_url" THEN align(source.short_urls, source.table.n)
                       ELSE IF c = "__long_youtube_url" THEN align(source.long_urls, source.table.n)
                       ELSE source.table.cells[c]])
    /\ link_counts' = <<count_links(source.short_urls), count_links(source.long_urls)>>
    /\ now_utc' = Clock(run)
    /\ out_rows' = <<>>
    /\ name_counts' = EmptyCounts
    /\ idx' = 0
    /\ pc' = "rows"
    /\ UNCHANGED <<script, run, source, table_file, report_file, out_df, imported,
                   audit_vars, codec_vars, fn_vars>>

\* lines 205-208: a row without a name is skipped
ConvertSkipRow ==
    /\ script = "convert" /\ pc = "rows"
    /\ idx < df.n
    /\ _clean_str(get(df, idx + 1, "Exercise")) = ""
    /\ idx' = idx + 1
    /\ UNCHANGED <<script, run, pc, source, table_file, report_file, df, audit_vars,
                   convert_vars, codec_vars, fn_vars>>

\* lines 205-316: a row with a name gives one output row
ConvertRow ==
    /\ script = "convert" /\ pc = "rows"
    /\ idx < df.n
    /\ _clean_str(get(df, idx + 1, "Exercise")) # ""
    /\ name_counts' = count_name(name_counts, casefold(row_name(df, idx + 1)))
    /\ out_rows' = Append(out_rows,
                          out_row(df, idx + 1, row_name(df, idx + 1),
                                  _clean_str(get(df, idx + 1, "__short_youtube_url")),
                                  _clean_str(get(df, idx + 1, "__long_youtube_url")),
                                  now_utc))
    /\ idx' = idx + 1
    /\ UNCHANGED <<script, run, pc, source, table_file, report_file, df, audit_vars,
                   link_counts, now_utc, out_df, imported, codec_vars, fn_vars>>

\* lines 318-331: the output frame, its ids de-duplicated
ConvertFrame ==
    /\ script = "convert" /\ pc = "rows"
    /\ idx = df.n
    /\ out_rows # <<>>
    /\ out_df' = dedupe_ids(out_rows)
    /\ pc' = "write_table"
    /\ UNCHANGED <<script, run, source, table_file, report_file, audit_vars, loop_vars,
                   link_counts, now_utc, out_rows, name_counts, imported, codec_vars,
                   fn_vars>>

\* lines 318-322: a frame of no rows has no column "id"; out_df["id"] raises
\* KeyError
ConvertNoRows ==
    /\ script = "convert" /\ pc = "rows"
    /\ idx = df.n
    /\ out_rows = <<>>
    /\ pc' = "aborted"
    /\ UNCHANGED <<script, run, source, table_file, report_file, audit_vars, loop_vars,
                   convert_vars, codec_vars, fn_vars>>

\* ConvertWriteTable with a slip: the table is not written
ConvertWriteTableSkipped ==
    /\ script = "convert" /\ pc = "write_table"
    /\ pc' = "write_report"
    /\ UNCHANGED <<script, run, source, table_file, report_file, audit_vars, loop_vars,
                   convert_vars, codec_vars, fn_vars>>
\* lines 333-334
ConvertWriteTable ==
    /\ script = "convert" /\ pc = "write_table"
    /\ table_file' = File("written", out_df, run)
    /\ pc' = "write_report"
    /\ UNCHANGED <<script, run, source, report_file, audit_vars, loop_vars,
                   convert_vars, codec_vars, fn_vars>>

\* lines 333-334: mkdir or to_csv raises OSError
ConvertWriteTableFails ==
    /\ script = "convert" /\ pc = "write_table"
    /\ table_file' \in FailedWrite(table_file, run)
    /\ pc' = "aborted"
    /\ UNCHANGED <<script, run, source, report_file, audit_vars, loop_vars,
                   convert_vars, codec_vars, fn_vars>>

\* line 338: the frame without the two link columns
without_links(frame) ==
    Frame(frame.n,
          [c \in Columns(frame) \ {"__short_youtube_url", "__long_youtube_url"} |->
              frame.cells[c]])

\* line 339: per output column, the pair (cells that are "", rows)
out_missingness(rows) ==
    [c \in DOMAIN rows[1] |->
        <<Cardinality({i \in 1..Len(rows) : rows[i][c] = ""}), Len(rows)>>]

\* line 340
dup_names_count(rows) ==
    duplicated_sum([i \in 1..Len(rows) |-> casefold(strip(rows[i].name))])

\* lines 337-366: the report's content; the report lists the 15 columns of
\* either missingness table with the highest percentages
convert_report ==
    [rows |-> df.n, out_rows |-> Len(out_df), dup_names |-> dup_names_count(out_df),
     link_counts |-> link_counts,
     original_na |-> missingness(without_links(df)),
     out_na |-> out_missingness(out_df)]

\* lines 337-371
ConvertWriteReport ==
    /\ script = "convert" /\ pc = "write_report"
    /\ report_file' = File("written", convert_report, run)
    /\ pc' = "done"
    /\ UNCHANGED <<script, run, source, table_file, audit_vars, loop_vars,
                   convert_vars, codec_vars, fn_vars>>

\* line 368: write_text raises OSError
ConvertWriteReportFails ==
    /\ script = "convert" /\ pc = "write_report"
    /\ report_file' \in FailedWrite(report_file, run)
    /\ pc' = "aborted"
    /\ UNCHANGED <<script, run, source, table_file, audit_vars, loop_vars,
                   convert_vars, codec_vars, fn_vars>>

\* the script is run again over the same workbook; the table of the run
\* before is what was imported
ConvertRerun ==
    /\ script = "convert" /\ pc = "done"
    /\ run < MaxRuns
    /\ run' = run + 1
    /\ imported' = table_file.content
    /\ pc' = "start"
    /\ df' = EmptyFrame /\ idx' = 0
    /\ link_counts' = <<0, 0>> /\ now_utc' = ""
    /\ out_rows' = <<>> /\ name_counts' = EmptyCounts /\ out_df' = <<>>
    /\ UNCHANGED <<script, source, table_file, report_file, audit_vars, codec_vars,
                   fn_vars>>

ConvertNext ==
    \/ ConvertMissingInput
    \/ ConvertReadFails
    \/ ConvertLoad
    \/ ConvertSkipRow
    \/ ConvertRow
    \/ ConvertFrame
    \/ ConvertNoRows
    \/ ConvertWriteTable
    \/ ConvertWriteTableFails
    \/ ConvertWriteReport
    \/ ConvertWriteReportFails
    \/ ConvertRerun

SpecConvert == ConvertInit /\ [][ConvertNext]_vars

(***************************************************************************)
(* A run of either script.                                                 *)
(***************************************************************************)
Init == AuditInit \/ ConvertInit

Next == AuditNext \/ ConvertNext

Spec == Init /\ [][Next]_vars

(***************************************************************************)
(*                              Properties                                 *)
(***************************************************************************)

\* the characters of a JSON string that need JSON-specific handling
JsonSpecial == {"\"", "\\", "\t", "\n", "\r"}

PlainItems(items) ==
    \A i \in 1..Len(items) : \A k \in 1..Len(items[i]) : Char(items[i], k) \notin JsonSpecial

\* C1: round trip of the array codec. For every sequence of strings whose
\* elements hold no character requiring JSON-specific handling, the empty
\* sequence included, _parse_json_array(_pg_array_literal(items)) is
\* (items, True).
C1_RoundTrip ==
    (c_pc = "decoded" /\ PlainItems(c_items)) => c_decoded = Parsed(c_items, TRUE)

\* the literal of one item, character by character: a backslash becomes two
\* backslashes, a double quote becomes backslash-quote, all else is kept
RECURSIVE EscapedChars(_)
EscapedChars(s) ==
    IF Len(s) = 0 THEN ""
    ELSE (CASE Char(s, 1) = "\\" -> "\\\\"
            [] Char(s, 1) = "\"" -> "\\\""
            [] OTHER -> Char(s, 1))
         \o EscapedChars(SubSeq(s, 2, Len(s)))

RECURSIVE CommaSeparated(_)
CommaSeparated(items) ==
    IF Len(items) = 0 THEN ""
    ELSE "\"" \o EscapedChars(Head(items)) \o "\""
         \o (IF Len(items) > 1 THEN "," ELSE "") \o CommaSeparated(Tail(items))

\* C2: Encode, in both scripts. The literal of a sequence of strings is '{',
\* the items joined by ',', '}', each item in double quotes with every
\* backslash doubled and every double quote preceded by one backslash; the
\* empty sequence encodes to '{}'.
C2_EncodeShape ==
    c_pc \in {"encoded", "decoded"} =>
        /\ c_literal = "{" \o CommaSeparated(c_items) \o "}"
        /\ (c_items = <<>> => c_literal = "{}")

\* the spec's example, [a"b, c\d], encoded by the convert script
C2_Witness ==
    /\ c_pc = "encoded"
    /\ c_script = "convert"
    /\ c_items = <<"a\"b", "c\\d">>
    /\ c_literal = "{\"a\\\"b\",\"c\\\\d\"}"

\* the rows of array column c the inner loop has processed so far
Processed(c) ==
    IF pc = "rows" /\ c = col THEN idx
    ELSE IF c \in todo THEN 0
    ELSE df.n

\* the cell written for row i of array column c
NewCell(c, i) ==
    IF pc = "rows" /\ c = col THEN new_values[i] ELSE cleaned.cells[c][i].text

\* a raw value the claim calls unparseable: non-empty, and either not JSON
\* and not brace-delimited, or JSON of a type that is not an array
Unparseable(raw) ==
    /\ ~_is_empty(raw)
    /\ \/ /\ json_loads(strip(CellStr(raw))).ok
          /\ json_loads(strip(CellStr(raw))).val.t # "list"
       \/ /\ ~json_loads(strip(CellStr(raw))).ok
          /\ ~(startswith(strip(CellStr(raw)), "{") /\ endswith(strip(CellStr(raw)), "}"))

\* C3: lossy-safe fallback of the audit script. For every array column and
\* every processed row whose raw value is non-empty and unparseable, the
\* output cell is the array literal of the one element equal to the raw
\* text, and the column's invalid count is the number of such rows.
C3_LossySafe ==
    (script = "audit" /\ pc \in {"rows", "columns", "write_table", "write_report", "done"}) =>
        \A c \in DOMAIN parse_stats :
            /\ \A i \in 1..Processed(c) :
                Unparseable(df.cells[c][i]) =>
                    NewCell(c, i) = _pg_array_literal(<<CellStr(df.cells[c][i])>>)
            /\ parse_stats[c].invalid_json_rows =
                   Cardinality({i \in 1..Processed(c) : Unparseable(df.cells[c][i])})

\* the 0-based indices below k of the rows of a column that are counted
\* invalid, in source order
RECURSIVE InvalidIndices(_, _)
InvalidIndices(cells, k) ==
    IF k = 0 THEN <<>>
    ELSE InvalidIndices(cells, k - 1)
         \o (IF ~_is_empty(cells[k]) /\ ~_parse_json_array(cells[k]).valid
             THEN <<k - 1>> ELSE <<>>)

Min(a, b) == IF a < b THEN a ELSE b

\* the examples expected after the rows at the given indices were invalid
FirstExamples(c, indices) ==
    [j \in 1..Min(Len(indices), MaxExamples) |->
        example_of(df, indices[j], df.cells[c][indices[j] + 1])]

\* C8: audit statistics of the audit script. After each processed row and at
\* the end of the run, for every array column of the source: total_rows is
\* the number of rows processed so far and is the sum of the empty, valid
\* and invalid counts, every processed row is counted in exactly one of the
\* three, and the invalid examples are the first min(invalid, 10) invalid
\* rows in source order.
C8_AuditStatistics ==
    (script = "audit" /\ pc \in {"rows", "columns", "write_table", "write_report", "done"}) =>
        \A c \in DOMAIN parse_stats :
            LET st == parse_stats[c]
                k == Processed(c)
                cells == df.cells[c]
            IN  /\ st.total_rows = k
                /\ st.empty_rows + st.valid_json_rows + st.invalid_json_rows = st.total_rows
                /\ st.empty_rows = Cardinality({i \in 1..k : _is_empty(cells[i])})
                /\ st.invalid_json_rows = Len(InvalidIndices(cells, k))
                /\ Len(invalid_examples[c]) = Min(st.invalid_json_rows, MaxExamples)
                /\ invalid_examples[c] = FirstExamples(c, InvalidIndices(cells, k))

\* a column with an empty or valid first row and more invalid rows than the
\* examples kept, in the middle of the inner loop and at the end of the run
C8_Witness ==
    /\ script = "audit" /\ pc = "done"
    /\ \E c \in DOMAIN parse_stats :
        /\ parse_stats[c].invalid_json_rows > MaxExamples
        /\ parse_stats[c].empty_rows + parse_stats[c].valid_json_rows > 0
        /\ Len(invalid_examples[c]) = MaxExamples
        /\ invalid_examples[c][1][1] = "x2 squat"

\* the text of a cell, trimmed: "" for a missing cell
Trimmed(cell) == IF cell.kind \in {"none", "nan"} THEN "" ELSE strip(CellStr(cell))

Least(S) == CHOOSE x \in S : \A y \in S : x <= y

Categories == {"legs", "core", "full_body", "chest", "back", "shoulders", "arms"}

\* an ordered rule list: the keyword groups and the category of each
StatedRules ==
    << <<{"chest", "pectoral"}, "chest">>,
       <<{"back", "lat", "trap", "rhomboid", "erector"}, "back">>,
       <<{"shoulder", "deltoid", "rotator"}, "shoulders">>,
       <<{"arm", "biceps", "triceps", "forearm", "wrist"}, "arms">> >>

CodeRules ==
    << <<{"chest", "pectoralis"}, "chest">>,
       <<{"back", "latissimus", "trapezi", "rhombo", "erector"}, "back">>,
       <<{"shoulder", "deltoid", "rotator"}, "shoulders">>,
       <<{"biceps", "triceps", "forearm", "wrist", "brachii"}, "arms">> >>

\* the rules one of whose keywords is a substring of either muscle text
Matching(rules, mover, target) ==
    {r \in 1..Len(rules) :
        \E k \in rules[r][1] : contains(lower(mover), k) \/ contains(lower(target), k)}

\* the category by first match: the body region, then the rules in order,
\* then the two defaults
FirstMatch(rules, region, mover, target) ==
    IF lower(region) = "lower body" THEN "legs"
    ELSE IF lower(region) = "core" THEN "core"
    ELSE IF lower(region) = "full body" THEN "full_body"
    ELSE IF Matching(rules, mover, target) # {}
    THEN rules[Least(Matching(rules, mover, target))][2]
    ELSE IF lower(region) = "upper body" THEN "arms"
    ELSE "full_body"

\* C4, as stated: the category is one of the seven and is chosen by first
\* match, the body region first, then the keyword groups chest/pectoral,
\* back/lat/trap/rhomboid/erector, shoulder/deltoid/rotator,
\* arm/biceps/triceps/forearm/wrist, then arms for an upper body, then
\* full_body.
C4_StatedKeywords ==
    m_pc = "done" =>
        /\ m_category \in Categories
        /\ m_category = FirstMatch(StatedRules, Trimmed(m_args[1]), Trimmed(m_args[2]),
                                   Trimmed(m_args[3]))

\* C4, amended: the same first-match order with the keyword groups of the
\* code: chest/pectoralis, back/latissimus/trapezi/rhombo/erector,
\* shoulder/deltoid/rotator, biceps/triceps/forearm/wrist/brachii.
C4_Category ==
    m_pc = "done" =>
        /\ m_category \in Categories
        /\ m_category = FirstMatch(CodeRules, Trimmed(m_args[1]), Trimmed(m_args[2]),
                                   Trimmed(m_args[3]))

\* a prime mover with keywords of two groups and no deciding body region:
\* the earlier group wins
C4_Witness ==
    /\ m_pc = "done"
    /\ m_args = <<NaN, Str("Pectoralis Major"), Str("Back")>>
    /\ m_category = "chest"

\* the indices from i on of the rows of the source frame that have a name,
\* in source order
RECURSIVE NamedFrom(_)
NamedFrom(i) ==
    IF i > df.n THEN <<>>
    ELSE (IF Trimmed(get(df, i, "Exercise")) # "" THEN <<i>> ELSE <<>>) \o NamedFrom(i + 1)

\* the source row of the k-th output row
SourceRow(k) == NamedFrom(1)[k]

\* the run is past the de-duplication pass
Framed == script = "convert" /\ pc \in {"write_table", "write_report", "done"}

\* the number of rows up to row i that carry the computed id of row i
Occurrence(i) == Cardinality({j \in 1..i : out_rows[j].id = out_rows[i].id})

\* C5: stable-id collision handling of the convert script. After the
\* de-duplication pass the ids of the output rows are pairwise distinct, the
\* first row carrying a computed id keeps it, and the k-th row carrying it
\* (k >= 2) has the id hashed from the computed id, ':' and k; the table is
\* written with these ids.
C5_DistinctIds ==
    Framed =>
        /\ Len(out_df) = Len(out_rows)
        /\ \A i \in 1..Len(out_df) : \A j \in 1..Len(out_df) :
               i # j => out_df[i].id # out_df[j].id
        /\ \A i \in 1..Len(out_df) :
               out_df[i].id =
                   IF Occurrence(i) = 1 THEN out_rows[i].id
                   ELSE _stable_exercise_id(out_rows[i].id \o ":" \o IntStr(Occurrence(i)))
        /\ (table_file.status = "written" /\ table_file.by = run) =>
               table_file.content = out_df

\* three rows with one computed id: the second and the third are re-derived
C5_Witness ==
    /\ Framed
    /\ \E i \in 1..Len(out_df) :
        /\ Occurrence(i) = 3
        /\ out_df[i].id # out_rows[i].id

\* the four key fields of the k-th output row
KeyFields(k) ==
    << out_rows[k].name,
       Trimmed(get(df, SourceRow(k), "Primary Equipment")),
       Trimmed(get(df, SourceRow(k), "Prime Mover Muscle")),
       Trimmed(get(df, SourceRow(k), "Movement Pattern #1")) >>

DifferInOne(a, b) == Cardinality({f \in 1..4 : a[f] # b[f]}) = 1

\* C6: stable-id determinism of the convert script. A later run over the
\* same source rows gives every output row the id the run before gave it,
\* re-derived ids included, whatever the timestamps of the two runs; and two
\* rows that differ in exactly one of the four key fields get different ids,
\* computed and final.
C6_Determinism ==
    /\ (Framed /\ run >= 2) =>
           /\ Len(out_df) = Len(imported)
           /\ \A i \in 1..Len(out_df) : out_df[i].id = imported[i].id
    /\ script = "convert" =>
           LET keys == [k \in 1..Len(out_rows) |-> KeyFields(k)] IN
           \A i \in 1..Len(out_rows) : \A j \in 1..(i - 1) :
               DifferInOne(keys[i], keys[j]) =>
                   /\ out_rows[i].id # out_rows[j].id
                   /\ Framed => out_df[i].id # out_df[j].id

\* a second run, at another time, of a sheet with a re-derived id and two
\* rows that differ in one key field
C6_Witness ==
    /\ Framed /\ run = 2 /\ pc = "done"
    /\ out_df[1].created_at # imported[1].created_at
    /\ \E i \in 1..Len(out_df) : out_df[i].id # out_rows[i].id
    /\ \E i \in 1..Len(out_rows) : \E j \in 1..Len(out_rows) :
           DifferInOne(KeyFields(i), KeyFields(j))

\* a file this run wrote completely
Written(file) == file.status = "written" /\ file.by = run

\* a file this run did not touch
Untouched(file) == file.by # run

\* C7, as stated: a run ends with both output files written, or aborted with
\* neither written; a missing input aborts before any processing or write;
\* no end state has the table written without the report.
C7_AllOrNothing ==
    /\ pc \in {"done", "aborted"} =>
           \/ Written(table_file) /\ Written(report_file)
           \/ pc = "aborted" /\ Untouched(table_file) /\ Untouched(report_file)
    /\ source.kind = "missing" =>
           /\ pc \in {"start", "aborted"}
           /\ Untouched(table_file) /\ Untouched(report_file)
           /\ df = EmptyFrame

\* C7, amended: a run that completes has written both output files, the
\* table before the report; the report is never written without the table; a
\* run that aborts without having touched the table has not touched the
\* report; a missing input aborts before any processing or write. A run that
\* aborts at the report write ends with the table written and no report.
C7_Outputs ==
    /\ pc = "done" => Written(table_file) /\ Written(report_file)
    /\ Written(report_file) => Written(table_file)
    /\ (pc = "aborted" /\ Untouched(table_file)) => Untouched(report_file)
    /\ source.kind = "missing" =>
           /\ pc \in {"start", "aborted"}
           /\ Untouched(table_file) /\ Untouched(report_file)
           /\ df = EmptyFrame

\* a run of either script that aborted at the report: the table is written,
\* the report is not
C7_Witness ==
    /\ pc = "aborted"
    /\ Written(table_file)
    /\ report_file.status # "written"

\* the indices of the inputs that are kept: not blank, and equal to no
\* earlier input when both are trimmed and compared ignoring case
Kept(items) ==
    {i \in 1..Len(items) :
        /\ Trimmed(items[i]) # ""
        /\ \A j \in 1..(i - 1) : lower(Trimmed(items[j])) # lower(Trimmed(items[i]))}

\* the k-th kept index
KeptAt(items, k) ==
    CHOOSE i \in Kept(items) : Cardinality({j \in Kept(items) : j <= i}) = k

\* C9: case-insensitive de-duplication. The output is the trimmed non-blank
\* inputs that equal no earlier input ignoring case and surrounding
\* whitespace, in source order and in the casing of the first occurrence; no
\* two output elements are equal ignoring case, and every non-blank input
\* equals some output element ignoring case.
C9_Dedupe ==
    d_pc = "done" =>
        /\ Len(d_out) = Cardinality(Kept(d_items))
        /\ \A k \in 1..Len(d_out) : d_out[k] = Trimmed(d_items[KeptAt(d_items, k)])
        /\ \A a \in 1..Len(d_out) : \A b \in 1..Len(d_out) :
               a # b => lower(d_out[a]) # lower(d_out[b])
        /\ \A i \in 1..Len(d_items) :
               Trimmed(d_items[i]) # "" =>
                   \E k \in 1..Len(d_out) : lower(d_out[k]) = lower(Trimmed(d_items[i]))

\* the spec's example
C9_Witness ==
    /\ d_pc = "done"
    /\ d_items = <<Str("Biceps"), Str("biceps "), Str("Triceps")>>
    /\ d_out = <<"Biceps", "Triceps">>

\* the tips literal of an output row has an 'In-depth video' entry, and the
\* entry of a given link
HasInDepth(row) == contains(row.tips, "\"In-depth video: ")
HasInDepthOf(row, url) == contains(row.tips, "\"In-depth video: " \o url \o "\"")

\* the k-th output row prefers the short link and keeps the long one
PrefersShort(row, short_url, long_url) ==
    /\ row.video_url = IF short_url # "" THEN short_url ELSE long_url
    /\ HasInDepth(row) <=> (long_url # "" /\ long_url # row.video_url)
    /\ HasInDepth(row) => HasInDepthOf(row, long_url)
    /\ long_url # "" => (row.video_url = long_url) # HasInDepthOf(row, long_url)

\* C10: video link preference of the convert script. In every output row
\* video_url is the short link when that is not empty and the long link
\* otherwise; the tips have an 'In-depth video: <long link>' entry exactly
\* when the long link is not empty and differs from video_url; a long link
\* that is not empty is in video_url or in the tips, never in both. The
\* table is written with these rows.
C10_VideoPreference ==
    script = "convert" =>
        /\ \A k \in 1..Len(out_rows) :
               PrefersShort(out_rows[k],
                            Trimmed(get(df, SourceRow(k), "__short_youtube_url")),
                            Trimmed(get(df, SourceRow(k), "__long_youtube_url")))
        /\ (Framed /\ Written(table_file)) =>
               /\ Len(table_file.content) = Len(out_rows)
               /\ \A k \in 1..Len(out_rows) :
                      /\ table_file.content[k].video_url = out_rows[k].video_url
                      /\ table_file.content[k].tips = out_rows[k].tips

\* a written table with a row of two distinct links, a row with the long
\* link only, and a row whose two links are the same
C10_Witness ==
    /\ Framed /\ Written(table_file)
    /\ \E k \in 1..Len(out_rows) :
        /\ out_rows[k].video_url = "yt/s1"
        /\ HasInDepthOf(out_rows[k], "yt/l1")
    /\ \E k \in 1..Len(out_rows) :
        /\ out_rows[k].video_url = "yt/l2"
        /\ ~HasInDepth(out_rows[k])
    /\ \E k \in 1..Len(out_rows) :
        /\ Trimmed(get(df, SourceRow(k), "__long_youtube_url")) = "yt/s1"
        /\ out_rows[k].video_url = "yt/s1"
        /\ ~HasInDepth(out_rows[k])

\* a name as the comparison of names takes it: trimmed, runs of whitespace
\* as one space, in lower case; "" for a missing or blank name
NormalName(cell) == lower(normalize_name(Trimmed(cell)))

\* the rows of a column of names that have a name
Named(names) == {i \in 1..Len(names) : NormalName(names[i]) # ""}

\* the named rows whose name equals the name of an earlier row
Repeated(names) ==
    {i \in Named(names) :
        \E j \in Named(names) : j < i /\ NormalName(names[j]) = NormalName(names[i])}

\* the names of the source of the run: the column name of the audit script's
\* table, the column Exercise of the convert script's sheet
SourceNames ==
    IF script = "audit"
    THEN (IF "name" \in Columns(df) THEN df.cells["name"] ELSE <<>>)
    ELSE [i \in 1..df.n |-> get(df, i, "Exercise")]

\* the count of duplicate names in the report written
ReportedDuplicates ==
    IF script = "audit" THEN report_file.content.dup_name
    ELSE report_file.content.dup_names

\* C11: duplicate-name count of the report, in both scripts. The count
\* reported is the number of rows whose name, compared ignoring case and with
\* whitespace normalized, equals the name of an earlier row; it is the number
\* of named rows minus the number of distinct normalized names.
C11_DuplicateNames ==
    (pc = "done" /\ Written(report_file)) =>
        /\ ReportedDuplicates = Cardinality(Repeated(SourceNames))
        /\ ReportedDuplicates =
               Cardinality(Named(SourceNames))
               - Cardinality({NormalName(SourceNames[i]) : i \in Named(SourceNames)})

====
